---- MODULE Spec2Model ----
(***************************************************************************)
(* Pixel marketplace ledger.                                               *)
(*                                                                         *)
(*   POST /api/pixels/buy   src/pages/api/pixels/buy.js                    *)
(*   GET  /api/pixels/get   src/pages/api/stripe/webhook.js, lines 47-66   *)
(*                                                                         *)
(* Every HTTP request runs its handler as an async function: the code      *)
(* between two awaits is one step, and the steps of different requests     *)
(* interleave freely.  The database is the shared state; a callback run    *)
(* by prisma.$transaction stages its writes under row locks and they       *)
(* become visible together at commit, or not at all.                       *)
(***************************************************************************)
EXTENDS Integers, Sequences, FiniteSets, TLC

(***************************************************************************)
(* Bounds of the model.                                                    *)
(***************************************************************************)
NumSlots == 2          \* requests that can be in flight together
MaxRequests == 2       \* purchase requests received in one behaviour

(***************************************************************************)
(* Program constants.                                                      *)
(***************************************************************************)
GridCells == 1000000   \* buy.js:18  idx >= 1000000
MaxIntensity == 30     \* buy.js:23  inten > 30
MaxWindow == 20000     \* webhook.js:53  end - start > 20000
DefaultEnd == 10000    \* webhook.js:52  req.query.end ?? 10000

Accounts == {"u1", "u2"}
NoSession == "anonymous"
Slots == 1..NumSlots
\* The cell rows the model keeps: the first and the last index of the grid,
\* and one in between.
CellIdx == {0, 42, GridCells - 1}

(***************************************************************************)
(* JavaScript values as they arrive in a JSON body or a query string.      *)
(* t is the type; h is twice the numeric value, so that 1.5 is h = 3 and   *)
(* an integer is an even h.                                                *)
(***************************************************************************)
JsNum(n) == [t |-> "number", h |-> 2 * n]
JsHalf(k) == [t |-> "number", h |-> k]
JsNumStr(n) == [t |-> "numstr", h |-> 2 * n]
JsUndefined == [t |-> "undefined", h |-> 0]
JsNull == [t |-> "null", h |-> 0]
JsText == [t |-> "text", h |-> 0]
JsEmpty == [t |-> "empty", h |-> 0]

\* A JavaScript number: NaN, or the value h / 2.
NaN == [nan |-> TRUE, h |-> 0]
Num(h) == [nan |-> FALSE, h |-> h]

\* Number(x): null and "" become 0, a numeric string its value,
\* undefined and any other text NaN.
ToNumber(x) ==
  CASE x.t = "number" -> Num(x.h)
    [] x.t = "numstr" -> Num(x.h)
    [] x.t = "null" -> Num(0)
    [] x.t = "empty" -> Num(0)
    [] OTHER -> NaN

IsInteger(n) == ~n.nan /\ n.h % 2 = 0
\* Comparisons with NaN are false.
Lt(n, k) == ~n.nan /\ n.h < 2 * k
Ge(n, k) == ~n.nan /\ n.h >= 2 * k
Gt(n, k) == ~n.nan /\ n.h > 2 * k

(***************************************************************************)
(* Colors are strings, modelled as sequences of characters.                *)
(***************************************************************************)
HexDigits == {"0", "1", "2", "3", "4", "5", "6", "7", "8", "9",
              "a", "b", "c", "d", "e", "f", "A", "B", "C", "D", "E", "F"}
ColorRed == <<"#", "f", "f", "0", "0", "0", "0">>
ColorMixed == <<"#", "0", "0", "F", "F", "0", "a">>
ColorShort == <<"#", "f", "f", "f">>
ColorNoHash == <<"f", "f", "0", "0", "0", "0", "0">>
ColorNotHex == <<"#", "f", "f", "0", "0", "0", "g">>
ColorLong == <<"#", "f", "f", "0", "0", "0", "0", "0">>
\* String(undefined), which is what RegExp.test sees for a missing color.
ColorUndefined == <<"u", "n", "d", "e", "f", "i", "n", "e", "d">>

\* /^#[0-9A-Fa-f]{6}$/.test(color)
ColorRegexTest(color) ==
  /\ Len(color) = 7
  /\ color[1] = "#"
  /\ \A i \in 2..7 : color[i] \in HexDigits

(***************************************************************************)
(* priceCentsForBuyCount(n) = Math.pow(2, Math.max(0, n)) * 1              *)
(***************************************************************************)
RECURSIVE Pow2(_)
Pow2(n) == IF n <= 0 THEN 1 ELSE 2 * Pow2(n - 1)

Max(a, b) == IF a >= b THEN a ELSE b

\* Math.max(0, n), the exponent of the price.
PriceExponent(n) == Max(0, n)

\* A slip: n taken as the count after the purchase.
PriceForCountAfter(n) == Pow2(Max(0, n - 1)) * 1

priceCentsForBuyCount(n) == Pow2(PriceExponent(n)) * 1

(***************************************************************************)
(* The requests the model sends.                                           *)
(***************************************************************************)
Body(p, c, i) == [pixelIndex |-> p, color |-> c, intensity |-> i]

GoodBody == Body(JsNum(0), ColorRed, JsNum(10))

LastCellBody == Body(JsNumStr(GridCells - 1), ColorMixed, JsNum(MaxIntensity))

\* The bodies that pass the handler's validation.
ValidBodies == {GoodBody, LastCellBody, Body(JsNull, ColorRed, JsNum(0))}

BadIndexes == {JsNum(-1), JsNum(GridCells), JsHalf(3), JsUndefined, JsText}
BadColors == {ColorShort, ColorNoHash, ColorNotHex, ColorLong, ColorUndefined}
BadIntensities == {JsNum(-1), JsNum(MaxIntensity + 1), JsHalf(21), JsUndefined}

InvalidBodies ==
  {Body(p, ColorRed, JsNum(10)) : p \in BadIndexes}
    \cup {Body(JsNum(0), c, JsNum(10)) : c \in BadColors}
    \cup {Body(JsNum(0), ColorRed, i) : i \in BadIntensities}

WorstBody == Body(JsNum(GridCells), ColorShort, JsNum(-1))

NoBody == Body(JsUndefined, ColorUndefined, JsUndefined)
NoRequest == [method |-> "none", session |-> NoSession, body |-> NoBody]

InitBalances == {0, 1, 4}

(***************************************************************************)
(* State.                                                                  *)
(***************************************************************************)
VARIABLES
  balance,      \* User.balanceCents, by user id
  pixel,        \* Pixel rows by id: present, color, intensity, buyCount
  purchases,    \* Purchase rows, in the order of their commits
  pc,           \* where each request's handler stands
  req,          \* the request: method, session, body
  idx,          \* Number(pixelIndex)
  existing,     \* the row read by prisma.pixel.findUnique
  priceCents,   \* priceCentsForBuyCount(buyCount)
  user,         \* the row read by prisma.user.findUnique
  staged,       \* the writes of the open transaction, not yet committed
  status,       \* the HTTP status of the response, 0 while there is none
  result,       \* the body of a 200 response
  error,        \* what made the handler throw
  attempts,     \* transactions the handler has begun for this request
  touched,      \* whether a step of this request changed the database
  received,     \* requests received so far
  initBalance,  \* the balances at the start
  wpc,          \* where the handler of the window query stands
  wreq,         \* the window query: method, start, end
  wstatus,      \* the HTTP status of its response, 0 while there is none
  wout,         \* the body of its 200 response: rows by id
  wqueried,     \* whether prisma.pixel.findMany has been called
  wfrom,        \* how many purchases had committed when the query arrived
  wat,          \* how many purchases had committed when findMany ran
  wlast,        \* the previous query answered 200, its body and its wat
  hpc,          \* where the handler of the Stripe webhook stands
  hevent,       \* the delivery it handles: method, signature, event
  hstatus,      \* the HTTP status of its response, 0 while there is none
  hreceived,    \* deliveries received so far
  credits,      \* the increments applied to balanceCents, in order, each
                \* with the number of purchases committed before it
  purchasedRef, \* game page: the sparse map idx -> { c, intensity, exp }
  clientBalanceCents,  \* game page: the balance it displays
  purchasedCount,      \* game page: the number of cells it displays as bought
  cpc,          \* game page: where buyPixel stands
  buyPixels,    \* api/buy.js: its pixels, price and owner by id
  buyHistory,   \* api/buy.js: its history, the sales in order
  listPixels,   \* api/pixels.js: its pixels
  listHistory,  \* api/pixels.js: its history
  bresp,        \* the last answer of /api/buy, with its request
  lresp,        \* the last answer of /api/pixels, and the number of sales
                \* made when it was sent
  psent         \* requests sent to the two routes so far

vars == <<balance, pixel, purchases, pc, req, idx, existing, priceCents, user,
          staged, status, result, error, attempts, touched, received,
          initBalance, wpc, wreq, wstatus, wout, wqueried, wfrom, wat, wlast,
          hpc, hevent, hstatus, hreceived, credits,
          purchasedRef, clientBalanceCents, purchasedCount, cpc,
          buyPixels, buyHistory, listPixels, listHistory, bresp, lresp, psent>>

winVars == <<wpc, wreq, wstatus, wout, wqueried, wfrom, wat, wlast>>

hookVars == <<hpc, hevent, hstatus, hreceived, credits>>

clientVars == <<purchasedRef, clientBalanceCents, purchasedCount, cpc>>

protoVars == <<buyPixels, buyHistory, listPixels, listHistory, bresp, lresp, psent>>

db == <<balance, pixel, purchases>>

NoRow == [present |-> FALSE, color |-> <<>>, intensity |-> JsUndefined, buyCount |-> 0]
NotRead == [read |-> FALSE, found |-> FALSE, buyCount |-> 0]
UserNotRead == [read |-> FALSE, balanceCents |-> 0]
NoResult == [priceCents |-> 0, buyCountAfter |-> 0]
NoQuery == [method |-> "none", start |-> JsUndefined, end |-> JsUndefined]
NoRows == [c \in {} |-> <<>>]
NoAnswer == [req |-> NoQuery, out |-> NoRows, at |-> 0]

InitWindow ==
  /\ wpc = "idle"
  /\ wreq = NoQuery
  /\ wstatus = 0
  /\ wout = NoRows
  /\ wqueried = FALSE
  /\ wfrom = 0
  /\ wat = 0
  /\ wlast = NoAnswer

\* No Stripe event has been delivered.
NoEvent ==
  [method |-> "none", signed |-> FALSE, type |-> "none", id |-> "none",
   userId |-> "none", amount_total |-> JsUndefined, amountCents |-> JsUndefined]

InitHook ==
  /\ hpc = "idle"
  /\ hevent = NoEvent
  /\ hstatus = 0
  /\ hreceived = 0
  /\ credits = <<>>

\* game.js:47-63  the page as it is mounted: nothing bought, balance 0.
NoEntry == [present |-> FALSE, c |-> <<>>, intensity |-> JsUndefined, exp |-> 0]

InitClient ==
  /\ purchasedRef = [i \in CellIdx |-> NoEntry]
  /\ clientBalanceCents = 0
  /\ purchasedCount = 0
  /\ cpc = "idle"

(***************************************************************************)
(* The prototype kept in memory: src/pages/api/buy.js and                  *)
(* src/pages/api/pixels.js.  Each of the two modules declares              *)
(* let pixels = [] and let history = [] and fills its own pixels by        *)
(* initPixels() when it is loaded.                                         *)
(***************************************************************************)
PixelCount == 100      \* buy.js:6, pixels.js:7  i <= 100
HistoryShown == 10     \* pixels.js:16  history.slice(-10)

PixelIds == 1..PixelCount
\* The pixels the model keeps: the first and the last.
KeptIds == {1, PixelCount}
NoOwner == "null"

\* buy.js:4-10, pixels.js:5-11  initPixels()
InitPixels == [i \in KeptIds |-> [price |-> 1, owner |-> NoOwner]]

NoProtoRequest == [method |-> "none", id |-> JsUndefined, pseudo |-> ""]
NoBuyAnswer == [req |-> NoProtoRequest, status |-> 0, success |-> FALSE, price |-> 0]
NoListAnswer == [status |-> 0, pixels |-> InitPixels, history |-> <<>>, at |-> 0]

InitProto ==
  /\ buyPixels = InitPixels
  /\ buyHistory = <<>>
  /\ listPixels = InitPixels
  /\ listHistory = <<>>
  /\ bresp = NoBuyAnswer
  /\ lresp = NoListAnswer
  /\ psent = 0

InitRequests ==
  /\ pc = [r \in Slots |-> "idle"]
  /\ req = [r \in Slots |-> NoRequest]
  /\ idx = [r \in Slots |-> NaN]
  /\ existing = [r \in Slots |-> NotRead]
  /\ priceCents = [r \in Slots |-> 0]
  /\ user = [r \in Slots |-> UserNotRead]
  /\ staged = [r \in Slots |-> {}]
  /\ status = [r \in Slots |-> 0]
  /\ result = [r \in Slots |-> NoResult]
  /\ error = [r \in Slots |-> "none"]
  /\ attempts = [r \in Slots |-> 0]
  /\ touched = [r \in Slots |-> FALSE]
  /\ received = 0

\* Ledgers that purchases made one after the other have left behind.
SeedRow(u, c, col, inten, n) ==
  [userId |-> u, pixelIndex |-> c, color |-> col, intensity |-> inten,
   countAfter |-> n, priceCents |-> priceCentsForBuyCount(n - 1)]

\* For the purchases: an empty ledger, and one where u2 has bought cell 0.
LedgerSeeds == { <<>>, <<SeedRow("u2", 0, ColorMixed, JsNum(0), 1)>> }

\* For the window query: ledgers with one and with two of the cells bought,
\* and one where only cell 42 has been bought, twice.
WindowSeeds ==
  { <<>>,
    <<SeedRow("u1", 0, ColorRed, JsNum(10), 1),
      SeedRow("u2", 0, ColorMixed, JsNum(MaxIntensity), 2)>>,
    <<SeedRow("u1", 0, ColorRed, JsNum(10), 1),
      SeedRow("u1", GridCells - 1, ColorMixed, JsNum(0), 1)>>,
    <<SeedRow("u1", 42, ColorMixed, JsNum(0), 1),
      SeedRow("u1", 42, ColorRed, JsNum(10), 2)>> }

StoreAfter(rows) ==
  [c \in CellIdx |->
     LET mine == SelectSeq(rows, LAMBDA p : p.pixelIndex = c)
     IN IF mine = <<>>
          THEN NoRow
          ELSE [present |-> TRUE,
                color |-> mine[Len(mine)].color,
                intensity |-> mine[Len(mine)].intensity,
                buyCount |-> Len(mine)]]

RECURSIVE Spent(_, _)
Spent(rows, a) ==
  IF rows = <<>> THEN 0
  ELSE (IF Head(rows).userId = a THEN Head(rows).priceCents ELSE 0)
         + Spent(Tail(rows), a)

\* The accounts started with balances from InitBalances, and seed is what
\* they have bought since.
InitLedger(seeds) ==
  \E seed \in seeds :
    /\ purchases = seed
    /\ pixel = StoreAfter(seed)
    /\ initBalance \in [Accounts -> InitBalances]
    /\ \A a \in Accounts : initBalance[a] >= Spent(seed, a)
    /\ balance = [a \in Accounts |-> initBalance[a] - Spent(seed, a)]

Init ==
  /\ InitLedger(LedgerSeeds)
  /\ InitRequests
  /\ InitWindow
  /\ InitHook
  /\ InitClient
  /\ InitProto

(***************************************************************************)
(* POST /api/pixels/buy                                                    *)
(***************************************************************************)
\* Every shape of request, for the requests handled one at a time.
AllRequests ==
  [method : {"POST"}, session : Accounts, body : ValidBodies]
    \cup [method : {"POST"}, session : {"u1"}, body : InvalidBodies \cup {WorstBody}]
    \cup [method : {"POST"}, session : {NoSession}, body : {GoodBody, WorstBody}]
    \cup [method : {"GET"}, session : {"u1"}, body : {GoodBody}]

\* The requests that are in flight together: purchases of the first and of
\* the last cell by either account, a malformed one and an anonymous one.
Requests ==
  [method : {"POST"}, session : Accounts, body : {GoodBody, LastCellBody}]
    \cup {[method |-> "POST", session |-> "u1", body |-> WorstBody],
          [method |-> "POST", session |-> NoSession, body |-> GoodBody]}

Cell(r) == idx[r].h \div 2

\* res.status(code).json({ error }) or an exception thrown out of the handler.
Respond(r, code, err) ==
  /\ pc' = [pc EXCEPT ![r] = "done"]
  /\ status' = [status EXCEPT ![r] = code]
  /\ error' = [error EXCEPT ![r] = err]

Continue(r, next) ==
  /\ pc' = [pc EXCEPT ![r] = next]
  /\ UNCHANGED <<status, error>>

\* Records whether the step of request r changed a row of the database.
Observe(r) ==
  touched' = [touched EXCEPT ![r] = @ \/ (<<balance, pixel, purchases>>' # db)]

\* buy.js:11  the request arrives and the handler checks its method.
Arrive(r, Q) ==
  /\ pc[r] = "idle"
  /\ received < MaxRequests
  /\ \E q \in Q :
       /\ req' = [req EXCEPT ![r] = q]
       /\ IF q.method # "POST"
            THEN Respond(r, 405, "none")
            ELSE Continue(r, "session")
  /\ received' = received + 1
  /\ UNCHANGED <<db, idx, existing, priceCents, user, staged, result, attempts,
                 initBalance>>
  /\ Observe(r)

ReceiveFrom(r, Q) ==
  /\ Arrive(r, Q)
  /\ UNCHANGED <<winVars, protoVars, hookVars, clientVars>>

Receive(r) == ReceiveFrom(r, Requests)

\* buy.js:14-24  the checks made once getServerSession has answered, in the
\* order of the code: the status and the message of the rejection, 0 if none.
IndexInvalid(n) == ~IsInteger(n) \/ Lt(n, 0) \/ Ge(n, GridCells)
IntensityInvalid(n) == ~IsInteger(n) \/ Lt(n, 0) \/ Gt(n, MaxIntensity)

\* A slip: the body is validated before the session is looked at.
RejectionBodyFirst(q) ==
  IF IndexInvalid(ToNumber(q.body.pixelIndex))
    THEN [code |-> 400, msg |-> "Invalid pixel index"]
  ELSE IF ~ColorRegexTest(q.body.color)
    THEN [code |-> 400, msg |-> "Invalid color"]
  ELSE IF IntensityInvalid(ToNumber(q.body.intensity))
    THEN [code |-> 400, msg |-> "Invalid intensity"]
  ELSE IF q.session = NoSession THEN [code |-> 401, msg |-> "Auth required"]
  ELSE [code |-> 0, msg |-> "none"]

Rejection(q) ==
  IF q.session = NoSession THEN [code |-> 401, msg |-> "Auth required"]
  ELSE IF IndexInvalid(ToNumber(q.body.pixelIndex))
    THEN [code |-> 400, msg |-> "Invalid pixel index"]
  ELSE IF ~ColorRegexTest(q.body.color)
    THEN [code |-> 400, msg |-> "Invalid color"]
  ELSE IF IntensityInvalid(ToNumber(q.body.intensity))
    THEN [code |-> 400, msg |-> "Invalid intensity"]
  ELSE [code |-> 0, msg |-> "none"]

\* buy.js:13-24
Validate(r) ==
  /\ pc[r] = "session"
  /\ LET rej == Rejection(req[r])
     IN IF rej.code # 0
          THEN /\ Respond(r, rej.code, rej.msg)
               /\ UNCHANGED idx
          ELSE /\ Continue(r, "readPixel")
               /\ idx' = [idx EXCEPT ![r] = ToNumber(req[r].body.pixelIndex)]
  /\ UNCHANGED <<db, req, existing, priceCents, user, staged, result, attempts,
                 received, initBalance>>
  /\ UNCHANGED <<winVars, protoVars, hookVars, clientVars>>
  /\ Observe(r)

\* prisma.pixel.findUnique({ where: { id } }): the committed row, or null.
FindPixel(id) ==
  IF pixel[id].present
    THEN [read |-> TRUE, found |-> TRUE, buyCount |-> pixel[id].buyCount]
    ELSE [read |-> TRUE, found |-> FALSE, buyCount |-> 0]

\* buy.js:28  existing ? existing.buyCount : 0
BuyCountOf(row) == IF row.found THEN row.buyCount ELSE 0

\* buy.js:27-29
ReadPixel(r) ==
  /\ pc[r] = "readPixel"
  /\ existing' = [existing EXCEPT ![r] = FindPixel(Cell(r))]
  /\ priceCents' =
       [priceCents EXCEPT ![r] = priceCentsForBuyCount(BuyCountOf(FindPixel(Cell(r))))]
  /\ Continue(r, "readUser")
  /\ UNCHANGED <<db, req, idx, user, staged, result, attempts, received,
                 initBalance>>
  /\ UNCHANGED <<winVars, protoVars, hookVars, clientVars>>
  /\ Observe(r)

\* A slip: a balance equal to the price is refused.
InsufficientFundsOrEqual(balanceCents, price) == balanceCents <= price

\* buy.js:33  user.balanceCents < priceCents
InsufficientFunds(balanceCents, price) == balanceCents < price

\* buy.js:32-37  the wallet is read and checked, and the transaction begun.
ReadUser(r) ==
  /\ pc[r] = "readUser"
  /\ LET row == [read |-> TRUE, balanceCents |-> balance[req[r].session]]
     IN /\ user' = [user EXCEPT ![r] = row]
        /\ IF InsufficientFunds(row.balanceCents, priceCents[r])
             THEN /\ Respond(r, 402, "Insufficient wallet balance")
                  /\ UNCHANGED attempts
             ELSE /\ Continue(r, "txDebit")
                  /\ attempts' = [attempts EXCEPT ![r] = @ + 1]
  /\ UNCHANGED <<db, req, idx, existing, priceCents, staged, result, received,
                 initBalance>>
  /\ UNCHANGED <<winVars, protoVars, hookVars, clientVars>>
  /\ Observe(r)

(***************************************************************************)
(* prisma.$transaction(async (tx) => { ... }), buy.js:37-68.  An update or *)
(* a create inside the callback takes the lock of its row and is staged;   *)
(* the staged writes are applied together when the callback has returned,  *)
(* and dropped together when the callback throws or the database fails.    *)
(***************************************************************************)
InTransaction(r) == pc[r] \in {"txDebit", "txPixel", "txPurchase", "txCommit"}

\* A slip: the update locks the table, not the row.
UserTableLocked(r) == \E o \in Slots \ {r} : "debit" \in staged[o]

UserLocked(r) ==
  \E o \in Slots \ {r} : "debit" \in staged[o] /\ req[o].session = req[r].session

PixelLocked(r) ==
  \E o \in Slots \ {r} : "pixel" \in staged[o] /\ Cell(o) = Cell(r)

Stage(r, w) == staged' = [staged EXCEPT ![r] = @ \cup {w}]

\* buy.js:39-42  tx.user.update({ data: { balanceCents: { decrement } } })
TxDebit(r) ==
  /\ pc[r] = "txDebit"
  /\ ~UserLocked(r)
  /\ Stage(r, "debit")
  /\ Continue(r, "txPixel")
  /\ UNCHANGED <<db, req, idx, existing, priceCents, user, result, attempts,
                 received, initBalance>>
  /\ UNCHANGED <<winVars, protoVars, hookVars, clientVars>>
  /\ Observe(r)

\* buy.js:52-54  tx.pixel.create fails on a row that is already there.
CreateConflicts(r) == ~existing[r].found /\ pixel[Cell(r)].present

\* buy.js:44-55  tx.pixel.update, or tx.pixel.create when the earlier read
\* found no row.
TxPixel(r) ==
  /\ pc[r] = "txPixel"
  /\ ~PixelLocked(r)
  /\ IF CreateConflicts(r)
       THEN /\ staged' = [staged EXCEPT ![r] = {}]
            /\ Respond(r, 500, "UniqueConstraint")
       ELSE /\ Stage(r, "pixel")
            /\ Continue(r, "txPurchase")
  /\ UNCHANGED <<db, req, idx, existing, priceCents, user, result, attempts,
                 received, initBalance>>
  /\ UNCHANGED <<winVars, protoVars, hookVars, clientVars>>
  /\ Observe(r)

\* buy.js:57-65  tx.purchase.create
TxPurchase(r) ==
  /\ pc[r] = "txPurchase"
  /\ Stage(r, "purchase")
  /\ Continue(r, "txCommit")
  /\ UNCHANGED <<db, req, idx, existing, priceCents, user, result, attempts,
                 received, initBalance>>
  /\ UNCHANGED <<winVars, protoVars, hookVars, clientVars>>
  /\ Observe(r)

\* A slip: the update has no where clause and debits every user.
DebitedEveryBalance(r) == [a \in Accounts |-> balance[a] - priceCents[r]]

\* A slip: the balance is written from the row read before the
\* transaction, balanceCents: user.balanceCents - priceCents.
DebitedFromRead(r) ==
  [balance EXCEPT ![req[r].session] = user[r].balanceCents - priceCents[r]]

\* The rows as the staged writes of request r leave them.
DebitedBalance(r) ==
  [balance EXCEPT ![req[r].session] = @ - priceCents[r]]

\* A slip: the count is written from the row read before the transaction,
\* buyCount: existing.buyCount + 1, not incremented in the database.
WrittenPixelFromRead(r) ==
  [pixel EXCEPT ![Cell(r)] =
     [present |-> TRUE,
      color |-> req[r].body.color,
      intensity |-> req[r].body.intensity,
      buyCount |-> BuyCountOf(existing[r]) + 1]]

WrittenPixel(r) ==
  [pixel EXCEPT ![Cell(r)] =
     [present |-> TRUE,
      color |-> req[r].body.color,
      intensity |-> req[r].body.intensity,
      buyCount |-> IF existing[r].found THEN @.buyCount + 1 ELSE 1]]

PurchaseRow(r) ==
  [userId |-> req[r].session,
   pixelIndex |-> Cell(r),
   color |-> req[r].body.color,
   intensity |-> req[r].body.intensity,
   countAfter |-> BuyCountOf(existing[r]) + 1,
   priceCents |-> priceCents[r]]

AppendedPurchases(r) == Append(purchases, PurchaseRow(r))

\* buy.js:67  return { priceCents, newCount: buyCount + 1 }
TxResult(r) ==
  [priceCents |-> priceCents[r], buyCountAfter |-> BuyCountOf(existing[r]) + 1]

\* buy.js:67-70  the callback returns, the transaction commits, the handler
\* answers 200.
TxCommit(r) ==
  /\ pc[r] = "txCommit"
  /\ balance' = IF "debit" \in staged[r] THEN DebitedBalance(r) ELSE balance
  /\ pixel' = IF "pixel" \in staged[r] THEN WrittenPixel(r) ELSE pixel
  /\ purchases' = IF "purchase" \in staged[r] THEN AppendedPurchases(r) ELSE purchases
  /\ staged' = [staged EXCEPT ![r] = {}]
  /\ result' = [result EXCEPT ![r] = TxResult(r)]
  /\ Respond(r, 200, "none")
  /\ UNCHANGED <<req, idx, existing, priceCents, user, attempts, received,
                 initBalance>>
  /\ UNCHANGED <<winVars, protoVars, hookVars, clientVars>>
  /\ Observe(r)

\* A slip: the debit is written outside the transaction and survives it.
RolledBackButDebit(r) ==
  <<IF "debit" \in staged[r] THEN DebitedBalance(r) ELSE balance, pixel, purchases>>

\* The rows after a transaction is rolled back.
RolledBack(r) == db

\* The database fails or times out while the transaction is open: the
\* transaction is rolled back and the handler throws.
TxAbort(r) ==
  /\ InTransaction(r)
  /\ balance' = RolledBack(r)[1]
  /\ pixel' = RolledBack(r)[2]
  /\ purchases' = RolledBack(r)[3]
  /\ staged' = [staged EXCEPT ![r] = {}]
  /\ Respond(r, 500, "TransactionFailed")
  /\ UNCHANGED <<req, idx, existing, priceCents, user, result, attempts,
                 received, initBalance>>
  /\ UNCHANGED <<winVars, protoVars, hookVars, clientVars>>
  /\ Observe(r)

\* The response has been sent; the slot is free for the next request.
Finish(r) ==
  /\ pc[r] = "done"
  /\ pc' = [pc EXCEPT ![r] = "idle"]
  /\ req' = [req EXCEPT ![r] = NoRequest]
  /\ idx' = [idx EXCEPT ![r] = NaN]
  /\ existing' = [existing EXCEPT ![r] = NotRead]
  /\ priceCents' = [priceCents EXCEPT ![r] = 0]
  /\ user' = [user EXCEPT ![r] = UserNotRead]
  /\ status' = [status EXCEPT ![r] = 0]
  /\ result' = [result EXCEPT ![r] = NoResult]
  /\ error' = [error EXCEPT ![r] = "none"]
  /\ attempts' = [attempts EXCEPT ![r] = 0]
  /\ touched' = [touched EXCEPT ![r] = FALSE]
  /\ UNCHANGED <<db, staged, received, initBalance>>
  /\ UNCHANGED <<winVars, protoVars, hookVars, clientVars>>

\* The requests overlap: the steps of the handlers interleave.
Next ==
  \E r \in Slots :
    \/ Receive(r)
    \/ Validate(r)
    \/ ReadPixel(r)
    \/ ReadUser(r)
    \/ TxDebit(r)
    \/ TxPixel(r)
    \/ TxPurchase(r)
    \/ TxCommit(r)
    \/ TxAbort(r)
    \/ Finish(r)

Spec == Init /\ [][Next]_vars

\* Every handler goes on: the event loop runs a continuation whose await
\* has settled, and the database grants a row lock that is free to the
\* transaction that waits for it.  That the database fails is not bound to
\* happen.
Fairness ==
  \A r \in Slots :
    /\ WF_vars(Validate(r))
    /\ WF_vars(ReadPixel(r))
    /\ WF_vars(ReadUser(r))
    /\ WF_vars(TxDebit(r))
    /\ WF_vars(TxPixel(r))
    /\ WF_vars(TxPurchase(r))
    /\ WF_vars(TxCommit(r))

SpecFair == Spec /\ Fairness

\* The count stored for a cell, 0 when it has no row.
StoredCount(c) == IF pixel[c].present THEN pixel[c].buyCount ELSE 0

\* The requests come one at a time: each is answered before the next is
\* received.
ReceiveNext == ReceiveFrom(1, AllRequests)

NextSequential ==
  \/ ReceiveNext
  \/ Validate(1)
  \/ ReadPixel(1)
  \/ ReadUser(1)
  \/ TxDebit(1)
  \/ TxPixel(1)
  \/ TxPurchase(1)
  \/ TxCommit(1)
  \/ TxAbort(1)
  \/ Finish(1)

SpecSequential == Init /\ [][NextSequential]_vars

(***************************************************************************)
(* A cell that has been bought many times.  u2 has bought cell 0 thirty    *)
(* times, for 2^30 - 1 cents in all, and u1 has the 2^30 cents of its      *)
(* next price.  Prices beyond 2^30 are above what the model checker's      *)
(* integers hold, so no request is received once a count is above 30.      *)
(***************************************************************************)
DeepSeed == [i \in 1..30 |-> SeedRow("u2", 0, ColorMixed, JsNum(0), i)]

InitDeepCell ==
  /\ purchases = DeepSeed
  /\ pixel = StoreAfter(DeepSeed)
  /\ initBalance = [a \in Accounts |->
                      IF a = "u2" THEN Spent(DeepSeed, "u2") ELSE Pow2(30)]
  /\ balance = [a \in Accounts |-> initBalance[a] - Spent(DeepSeed, a)]
  /\ InitRequests
  /\ InitWindow
  /\ InitHook
  /\ InitClient
  /\ InitProto

ReceiveDeep ==
  /\ \A c \in CellIdx : StoredCount(c) <= 30
  /\ ReceiveFrom(1, AllRequests)

NextDeepCell ==
  \/ ReceiveDeep
  \/ Validate(1)
  \/ ReadPixel(1)
  \/ ReadUser(1)
  \/ TxDebit(1)
  \/ TxPixel(1)
  \/ TxPurchase(1)
  \/ TxCommit(1)
  \/ TxAbort(1)
  \/ Finish(1)

SpecDeepCell == InitDeepCell /\ [][NextDeepCell]_vars

(***************************************************************************)
(* GET /api/pixels/get?start=&end=   webhook.js:47-66                      *)
(***************************************************************************)
\* x ?? d
Coalesce(x, d) == IF x.t \in {"undefined", "null"} THEN JsNum(d) ELSE x

\* webhook.js:51-52
StartOf(q) == ToNumber(Coalesce(q.start, 0))
EndOf(q) == ToNumber(Coalesce(q.end, DefaultEnd))

\* A slip: a window of exactly MaxWindow cells is refused.
RangeInvalidAtMax(start, end) ==
  \/ start.nan
  \/ end.nan
  \/ start.h < 0
  \/ end.h <= start.h
  \/ end.h - start.h >= 2 * MaxWindow

\* webhook.js:53
RangeInvalid(start, end) ==
  \/ start.nan
  \/ end.nan
  \/ start.h < 0
  \/ end.h <= start.h
  \/ end.h - start.h > 2 * MaxWindow

\* The rows as a query that does not wait for commits would see them: the
\* staged write of an open transaction in place of the committed row.
UncommittedPixel(c) ==
  IF \E o \in Slots : "pixel" \in staged[o] /\ Cell(o) = c
    THEN WrittenPixel(CHOOSE o \in Slots : "pixel" \in staged[o] /\ Cell(o) = c)[c]
    ELSE pixel[c]

\* A slip: the query reads uncommitted rows.
FindManyUncommitted(start, end) ==
  LET ids == {c \in CellIdx :
                UncommittedPixel(c).present /\ 2 * c >= start.h /\ 2 * c < end.h}
  IN [c \in ids |-> <<UncommittedPixel(c).color, UncommittedPixel(c).intensity,
                       UncommittedPixel(c).buyCount>>]

\* A slip: the rows sent in the previous answer are skipped.
FindManySincePrevious(start, end) ==
  LET ids == {c \in CellIdx \ DOMAIN wlast.out :
                pixel[c].present /\ 2 * c >= start.h /\ 2 * c < end.h}
  IN [c \in ids |-> <<pixel[c].color, pixel[c].intensity, pixel[c].buyCount>>]

\* A slip: lte in place of lt, the row at index end is returned too.
FindManyInclusive(start, end) ==
  LET ids == {c \in CellIdx : pixel[c].present /\ 2 * c >= start.h /\ 2 * c <= end.h}
  IN [c \in ids |-> <<pixel[c].color, pixel[c].intensity, pixel[c].buyCount>>]

\* webhook.js:57-64  findMany({ where: { id: { gte: start, lt: end } } })
\* and the compact map built from its rows.
FindMany(start, end) ==
  LET ids == {c \in CellIdx : pixel[c].present /\ 2 * c >= start.h /\ 2 * c < end.h}
  IN [c \in ids |-> <<pixel[c].color, pixel[c].intensity, pixel[c].buyCount>>]

\* The query strings the model sends; [numstr, h = 5] is "2.5".
Starts ==
  {JsUndefined, JsNumStr(0), JsNumStr(5), JsNumStr(-1), JsText, JsEmpty,
   [t |-> "numstr", h |-> 5],
   JsNumStr(GridCells - MaxWindow), JsNumStr(GridCells - MaxWindow - 1)}
Ends ==
  {JsUndefined, JsNumStr(3), JsNumStr(42), JsNumStr(100), JsNumStr(MaxWindow),
   JsNumStr(MaxWindow + 1), JsNumStr(MaxWindow + 5), JsNumStr(GridCells),
   JsText, JsEmpty}

Queries ==
  [method : {"GET"}, start : Starts, end : Ends]
    \cup {[method |-> "POST", start |-> JsNumStr(0), end |-> JsNumStr(100)]}

ledgerVars ==
  <<balance, pixel, purchases, pc, req, idx, existing, priceCents, user, staged,
    status, result, error, attempts, touched, received, initBalance>>

\* The request arrives.
WReceiveFrom(Q) ==
  /\ wpc = "idle"
  /\ \E q \in Q : wreq' = q
  /\ wpc' = "validate"
  /\ wfrom' = Len(purchases)
  /\ UNCHANGED <<wstatus, wout, wqueried, wat, wlast>>
  /\ UNCHANGED <<ledgerVars, protoVars, hookVars, clientVars>>

WReceive == WReceiveFrom(Queries)

\* webhook.js:50-54
WValidate ==
  /\ wpc = "validate"
  /\ IF wreq.method # "GET"
       THEN wpc' = "done" /\ wstatus' = 405
       ELSE IF RangeInvalid(StartOf(wreq), EndOf(wreq))
         THEN wpc' = "done" /\ wstatus' = 400
         ELSE wpc' = "query" /\ wstatus' = wstatus
  /\ UNCHANGED <<wreq, wout, wqueried, wfrom, wat, wlast>>
  /\ UNCHANGED <<ledgerVars, protoVars, hookVars, clientVars>>

\* webhook.js:57-65
WQuery ==
  /\ wpc = "query"
  /\ wout' = FindMany(StartOf(wreq), EndOf(wreq))
  /\ wqueried' = TRUE
  /\ wat' = Len(purchases)
  /\ wstatus' = 200
  /\ wpc' = "done"
  /\ UNCHANGED <<wreq, wfrom, wlast>>
  /\ UNCHANGED <<ledgerVars, protoVars, hookVars, clientVars>>

\* The response has been sent.
WRelease ==
  /\ wpc = "done"
  /\ wpc' = "idle"
  /\ wreq' = NoQuery
  /\ wstatus' = 0
  /\ wout' = NoRows
  /\ wqueried' = FALSE
  /\ wfrom' = 0
  /\ wat' = 0
  /\ wlast' = IF wstatus = 200 THEN [req |-> wreq, out |-> wout, at |-> wat]
                                ELSE wlast

WFinish ==
  /\ WRelease
  /\ UNCHANGED <<ledgerVars, protoVars, hookVars, clientVars>>

InitSeeded ==
  /\ InitLedger(WindowSeeds)
  /\ InitRequests
  /\ InitWindow
  /\ InitHook
  /\ InitClient
  /\ InitProto

NextWindow ==
  \/ WReceive
  \/ WValidate
  \/ WQuery
  \/ WFinish

SpecWindow == InitSeeded /\ [][NextWindow]_vars

(***************************************************************************)
(* POST /api/stripe/webhook   webhook.js:1-45                              *)
(*                                                                         *)
(* Stripe delivers an event to the endpoint until it is acknowledged, and  *)
(* may deliver an acknowledged event again: the same checkout session can  *)
(* arrive any number of times.                                             *)
(***************************************************************************)
MaxDeliveries == 3     \* deliveries received in one behaviour

buyVars ==
  <<pc, req, idx, existing, priceCents, user, staged, status, result, error,
    attempts, touched, received, initBalance>>

\* checkout.session.completed for the session id, made for userId.
Completed(id, userId, total, meta) ==
  [method |-> "POST", signed |-> TRUE, type |-> "checkout.session.completed",
   id |-> id, userId |-> userId, amount_total |-> total, amountCents |-> meta]

\* The deliveries the model sends: two payments, a session with no userId
\* in its metadata, one with no amount, one for a user that does not exist,
\* an event of another type, a forged signature and a GET.
Deliveries ==
  {Completed("cs_1", "u1", JsNum(100), JsNumStr(100)),
   Completed("cs_2", "u2", JsNull, JsNumStr(250)),
   Completed("cs_3", "none", JsNum(100), JsNumStr(100)),
   Completed("cs_4", "u1", JsNum(0), JsUndefined),
   Completed("cs_5", "ghost", JsNum(100), JsNumStr(100)),
   [Completed("cs_1", "u1", JsNum(100), JsNumStr(100))
      EXCEPT !.type = "payment_intent.succeeded"],
   [Completed("cs_1", "u1", JsNum(100), JsNumStr(100)) EXCEPT !.signed = FALSE],
   [Completed("cs_1", "u1", JsNum(100), JsNumStr(100)) EXCEPT !.method = "GET"]}

\* x || y
Truthy(x) ==
  CASE x.t = "number" -> x.h # 0
    [] x.t = "numstr" -> TRUE
    [] x.t = "text" -> TRUE
    [] OTHER -> FALSE

OrElse(x, y) == IF Truthy(x) THEN x ELSE y

\* webhook.js:32  Number(session.amount_total || session.metadata?.amountCents || 0)
AmountCents(e) == ToNumber(OrElse(OrElse(e.amount_total, e.amountCents), JsNum(0)))

\* webhook.js:33  userId && amountCents > 0
ToCredit(e) == e.userId # "none" /\ Gt(AmountCents(e), 0)

\* webhook.js:16  the delivery arrives and the handler checks its method.
HReceive ==
  /\ hpc = "idle"
  /\ hreceived < MaxDeliveries
  /\ \E e \in Deliveries :
       /\ hevent' = e
       /\ IF e.method # "POST"
            THEN hpc' = "done" /\ hstatus' = 405
            ELSE hpc' = "verify" /\ hstatus' = hstatus
  /\ hreceived' = hreceived + 1
  /\ UNCHANGED <<credits, db, buyVars, winVars, protoVars, clientVars>>

\* webhook.js:18-33  the body is read, the signature verified, and the event
\* looked at: 400 for a bad signature, the answer at once when there is
\* nothing to credit.
HVerify ==
  /\ hpc = "verify"
  /\ IF ~hevent.signed
       THEN hpc' = "done" /\ hstatus' = 400
       ELSE IF hevent.type = "checkout.session.completed" /\ ToCredit(hevent)
         THEN hpc' = "credit" /\ hstatus' = hstatus
         ELSE hpc' = "done" /\ hstatus' = 200
  /\ UNCHANGED <<hevent, hreceived, credits, db, buyVars,
                 winVars, protoVars, clientVars>>

\* A slip: the balance is set to the amount, not incremented by it.
CreditedAbsolute(bal, e) == [bal EXCEPT ![e.userId] = AmountCents(e).h \div 2]

\* webhook.js:34-37  data: { balanceCents: { increment: amountCents } }
Credited(bal, e) == [bal EXCEPT ![e.userId] = @ + AmountCents(e).h \div 2]

\* The row of the user to credit is locked by an open transaction of a
\* purchase: the update waits for its commit or rollback.
HookUserLocked ==
  \E o \in Slots : "debit" \in staged[o] /\ req[o].session = hevent.userId

\* webhook.js:34-44  prisma.user.update increments the balance, and the
\* handler answers { received: true }.
HCredit ==
  /\ hpc = "credit"
  /\ hevent.userId \in Accounts
  /\ ~HookUserLocked
  /\ balance' = Credited(balance, hevent)
  /\ credits' = Append(credits, [id |-> hevent.id, userId |-> hevent.userId,
                                  amount |-> balance'[hevent.userId]
                                               - balance[hevent.userId],
                                  at |-> Len(purchases)])
  /\ hpc' = "done"
  /\ hstatus' = 200
  /\ UNCHANGED <<hevent, hreceived, pixel, purchases, buyVars,
                 winVars, protoVars, clientVars>>

\* webhook.js:39-44  prisma.user.update throws, for a user that does not
\* exist or because the database fails; the error is logged and the handler
\* answers { received: true }.
HCreditFails ==
  /\ hpc = "credit"
  /\ hpc' = "done"
  /\ hstatus' = 200
  /\ UNCHANGED <<hevent, hreceived, credits, db, buyVars,
                 winVars, protoVars, clientVars>>

\* The response has been sent.
HFinish ==
  /\ hpc = "done"
  /\ hpc' = "idle"
  /\ hevent' = NoEvent
  /\ hstatus' = 0
  /\ UNCHANGED <<hreceived, credits, db, buyVars,
                 winVars, protoVars, clientVars>>

NextTopUp ==
  \/ HReceive
  \/ HVerify
  \/ HCredit
  \/ HCreditFails
  \/ HFinish

SpecTopUp == Init /\ [][NextTopUp]_vars

(***************************************************************************)
(* Window queries while purchases are being made: the steps of the two     *)
(* handlers interleave.                                                    *)
(***************************************************************************)
\* The query of the game page, loadWindow(0, 10000), which holds cells 0
\* and 42, and the window that ends at cell 42.
LiveQueries ==
  {[method |-> "GET", start |-> JsNumStr(0), end |-> JsNumStr(DefaultEnd)],
   [method |-> "GET", start |-> JsNumStr(0), end |-> JsNumStr(42)]}

Cell42Body == Body(JsNum(42), ColorRed, JsNum(10))

LiveRequests ==
  {[method |-> "POST", session |-> "u1", body |-> Cell42Body],
   [method |-> "POST", session |-> "u2", body |-> GoodBody]}

WReceiveLive == WReceiveFrom(LiveQueries)

ReceiveLive(r) == ReceiveFrom(r, LiveRequests)

\* The accounts have 4 cents each to spend, and u2 has bought cell 0.
InitLive ==
  /\ InitLedger({<<SeedRow("u2", 0, ColorMixed, JsNum(0), 1)>>})
  /\ initBalance = [a \in Accounts |-> 4]
  /\ InitRequests
  /\ InitWindow
  /\ InitHook
  /\ InitClient
  /\ InitProto

NextLive ==
  \/ \E r \in Slots :
       \/ ReceiveLive(r)
       \/ Validate(r)
       \/ ReadPixel(r)
       \/ ReadUser(r)
       \/ TxDebit(r)
       \/ TxPixel(r)
       \/ TxPurchase(r)
       \/ TxCommit(r)
       \/ TxAbort(r)
       \/ Finish(r)
  \/ WReceiveLive
  \/ WValidate
  \/ WQuery
  \/ WFinish

SpecLive == InitLive /\ [][NextLive]_vars

(***************************************************************************)
(* The game page, game.js: the client keeps a sparse map of the cells it   *)
(* knows as bought, filled by loadWindow and changed by buyPixel.  Its     *)
(* purchase is the request of slot 1; the requests of other clients take   *)
(* the other slots.                                                        *)
(***************************************************************************)
\* game.js:138-142  fetch("/api/pixels/buy", { method: "POST", body }),
\* signed in as u1 or not signed in.
ClientRequests ==
  [method : {"POST"}, session : {"u1", NoSession}, body : {GoodBody, Cell42Body}]

\* What other clients send meanwhile.
OtherRequests == {[method |-> "POST", session |-> "u2", body |-> GoodBody]}

\* game.js:109-112  loadWindow(0, 10000)
LoadQuery == [method |-> "GET", start |-> JsNumStr(0), end |-> JsNumStr(DefaultEnd)]

\* purchasedRef.current.size
SizeOf(m) == Cardinality({i \in CellIdx : m[i].present})

\* game.js:102-106  getPriceCents(idx)
getPriceCents(i) ==
  1 * Pow2(IF purchasedRef[i].present THEN purchasedRef[i].exp ELSE 0)

\* game.js:116-121  the rows of the answer merged into the map:
\* m.set(idx, { c: v[0], intensity: v[1], exp: (v[2] || 1) - 1 })
Merged(m, out) ==
  [i \in CellIdx |->
     IF i \in DOMAIN out
       THEN [present |-> TRUE, c |-> out[i][1], intensity |-> out[i][2],
             exp |-> (IF out[i][3] = 0 THEN 1 ELSE out[i][3]) - 1]
       ELSE m[i]]

\* game.js:149-151  the entry set after a purchase:
\* newExp = cur ? cur.exp + 1 : 1
Bought(m, i, color, intensityVal) ==
  [m EXCEPT ![i] = [present |-> TRUE, c |-> color, intensity |-> intensityVal,
                    exp |-> IF m[i].present THEN m[i].exp + 1 ELSE 1]]

\* A slip: the map is updated before res.ok is looked at.
LocalAfterBuyOptimistic(ok) ==
  Bought(purchasedRef, Cell(1), req[1].body.color, req[1].body.intensity)

\* game.js:143-151  if (!res.ok) throw ...; otherwise the map is updated.
LocalAfterBuy(ok) ==
  IF ok
    THEN Bought(purchasedRef, Cell(1), req[1].body.color, req[1].body.intensity)
    ELSE purchasedRef

\* game.js:135-142  buyPixel sends the request.
CBuySend ==
  /\ cpc = "idle"
  /\ Arrive(1, ClientRequests)
  /\ cpc' = "buy"
  /\ UNCHANGED <<purchasedRef, clientBalanceCents, purchasedCount>>
  /\ UNCHANGED <<winVars, protoVars, hookVars>>

\* game.js:143-154, 162-164  the response has arrived: a status that is not
\* 2xx, or a body that is not JSON, throws and buyPixel returns
\* { ok: false }; otherwise the map is updated.
CBuyResponse ==
  /\ cpc = "buy"
  /\ pc[1] = "done"
  /\ purchasedRef' = LocalAfterBuy(status[1] = 200)
  /\ purchasedCount' = IF status[1] = 200 THEN SizeOf(purchasedRef')
                                          ELSE purchasedCount
  /\ cpc' = IF status[1] = 200 THEN "me" ELSE "idle"
  /\ UNCHANGED clientBalanceCents
  /\ UNCHANGED <<db, buyVars, winVars, protoVars, hookVars>>

\* game.js:138, 162-164  fetch rejects, the connection is lost: buyPixel
\* returns { ok: false } while the server goes on with the request.
CBuyFails ==
  /\ cpc = "buy"
  /\ cpc' = "idle"
  /\ UNCHANGED <<purchasedRef, clientBalanceCents, purchasedCount>>
  /\ UNCHANGED <<db, buyVars, winVars, protoVars, hookVars>>

\* game.js:156-160 and unnamed/part_019  GET /api/me answers the row of the
\* session's user: setBalanceCents(meJson.balanceCents || 0).
CMeResponse ==
  /\ cpc = "me"
  /\ clientBalanceCents' = balance["u1"]
  /\ cpc' = "idle"
  /\ UNCHANGED <<purchasedRef, purchasedCount>>
  /\ UNCHANGED <<db, buyVars, winVars, protoVars, hookVars>>

\* game.js:156-157, 162-164  /api/me is not ok, or fetch rejects.
CMeFails ==
  /\ cpc = "me"
  /\ cpc' = "idle"
  /\ UNCHANGED <<purchasedRef, clientBalanceCents, purchasedCount>>
  /\ UNCHANGED <<db, buyVars, winVars, protoVars, hookVars>>

\* The slot of the client's request is free again once buyPixel is no
\* longer waiting for its response.
CFinish ==
  /\ cpc # "buy"
  /\ Finish(1)

\* game.js:109-112  loadWindow sends its query.
CLoadSend == WReceiveFrom({LoadQuery})

\* game.js:113-131  the answer has arrived: its rows are merged into the
\* map when it is ok, and nothing is done otherwise.
CLoadResponse ==
  /\ WRelease
  /\ purchasedRef' = IF wstatus = 200 THEN Merged(purchasedRef, wout)
                                       ELSE purchasedRef
  /\ purchasedCount' = IF wstatus = 200 THEN SizeOf(purchasedRef')
                                         ELSE purchasedCount
  /\ UNCHANGED <<clientBalanceCents, cpc>>
  /\ UNCHANGED <<ledgerVars, protoVars, hookVars>>

ReceiveOther(r) == ReceiveFrom(r, OtherRequests)

NextClient ==
  \/ CBuySend
  \/ Validate(1)
  \/ ReadPixel(1)
  \/ ReadUser(1)
  \/ TxDebit(1)
  \/ TxPixel(1)
  \/ TxPurchase(1)
  \/ TxCommit(1)
  \/ TxAbort(1)
  \/ CBuyResponse
  \/ CBuyFails
  \/ CMeResponse
  \/ CMeFails
  \/ CFinish
  \/ CLoadSend
  \/ WValidate
  \/ WQuery
  \/ CLoadResponse
  \/ \E r \in Slots \ {1} :
       \/ ReceiveOther(r)
       \/ Validate(r)
       \/ ReadPixel(r)
       \/ ReadUser(r)
       \/ TxDebit(r)
       \/ TxPixel(r)
       \/ TxPurchase(r)
       \/ TxCommit(r)
       \/ TxAbort(r)
       \/ Finish(r)

\* The page is opened when u2 has bought cell 0; u1 has 2 cents, the price
\* of cell 0 now.
GameSeed == <<SeedRow("u2", 0, ColorMixed, JsNum(0), 1)>>

InitGame ==
  /\ purchases = GameSeed
  /\ pixel = StoreAfter(GameSeed)
  /\ initBalance = [a \in Accounts |-> IF a = "u1" THEN 2 ELSE 4]
  /\ balance = [a \in Accounts |-> initBalance[a] - Spent(GameSeed, a)]
  /\ InitRequests
  /\ InitWindow
  /\ InitHook
  /\ InitClient
  /\ InitProto

SpecClient == InitGame /\ [][NextClient]_vars

(***************************************************************************)
(* Top-ups while purchases are being made: the webhook and the purchase    *)
(* handler interleave, on the accounts and the ledger of InitGame.  Both   *)
(* accounts buy cell 0, and Stripe delivers payments of both.              *)
(***************************************************************************)
WalletRequests == [method : {"POST"}, session : Accounts, body : {GoodBody}]

ReceiveWallet == ReceiveFrom(1, WalletRequests)

NextWallet ==
  \/ ReceiveWallet
  \/ Validate(1)
  \/ ReadPixel(1)
  \/ ReadUser(1)
  \/ TxDebit(1)
  \/ TxPixel(1)
  \/ TxPurchase(1)
  \/ TxCommit(1)
  \/ TxAbort(1)
  \/ Finish(1)
  \/ HReceive
  \/ HVerify
  \/ HCredit
  \/ HCreditFails
  \/ HFinish

SpecWallet == InitGame /\ [][NextWallet]_vars

(***************************************************************************)
(* The prototype kept in memory.  Its handlers have no await: a request    *)
(* is handled in one step.                                                 *)
(*                                                                         *)
(*   POST /api/buy      src/pages/api/buy.js                               *)
(*   GET  /api/pixels   src/pages/api/pixels.js                            *)
(***************************************************************************)
MaxCalls == 3          \* requests sent to the two routes in one behaviour

\* The ids the model sends: the first and the last pixel, 0, 101, no id,
\* the string "1" and 1.5.
ProtoIds ==
  {JsNum(1), JsNum(PixelCount), JsNum(0), JsNum(PixelCount + 1), JsUndefined,
   JsNumStr(1), JsHalf(3)}

\* unnamed/part_015:28-32  body: JSON.stringify({ id, pseudo }); the empty
\* pseudo stands for a missing one as well.
ProtoRequests ==
  [method : {"POST"}, id : ProtoIds, pseudo : {"ann", "bob", ""}]
    \cup {[method |-> "GET", id |-> JsNum(1), pseudo |-> "ann"]}

\* buy.js:22  pixels.find((p) => p.id === id): the index of the pixel, 0
\* when there is none.
FindPixelId(id) ==
  IF id.t = "number" /\ id.h % 2 = 0 /\ (id.h \div 2) \in PixelIds
    THEN id.h \div 2
    ELSE 0

\* buy.js:14-26  the status of the answer.
BuyStatus(q) ==
  IF q.method # "POST" THEN 405
  ELSE IF ~Truthy(q.id) \/ q.pseudo = "" THEN 400
  ELSE IF FindPixelId(q.id) = 0 THEN 404
  ELSE 200

\* A slip: the price is tripled.
SoldTripled(pixels, i, pseudo) ==
  [pixels EXCEPT ![i] = [price |-> @.price * 3, owner |-> pseudo]]

\* buy.js:29-35  pixel.owner = pseudo; pixel.price = priceToPay * 2
Sold(pixels, i, pseudo) ==
  [pixels EXCEPT ![i] = [price |-> @.price * 2, owner |-> pseudo]]

\* buy.js:38  { id, buyer: pseudo, price: priceToPay, oldOwner }
Sale(pixels, i, pseudo) ==
  [id |-> i, buyer |-> pseudo, price |-> pixels[i].price, oldOwner |-> pixels[i].owner]

\* buy.js:13-47
PBuy ==
  /\ psent < MaxCalls
  /\ \E q \in ProtoRequests :
       LET i == FindPixelId(q.id)
       IN IF BuyStatus(q) = 200
            THEN /\ buyPixels' = Sold(buyPixels, i, q.pseudo)
                 /\ buyHistory' = Append(buyHistory, Sale(buyPixels, i, q.pseudo))
                 /\ bresp' = [req |-> q, status |-> 200, success |-> TRUE,
                               price |-> buyPixels[i].price]
            ELSE /\ UNCHANGED <<buyPixels, buyHistory>>
                 /\ bresp' = [req |-> q, status |-> BuyStatus(q),
                               success |-> FALSE, price |-> 0]
  /\ psent' = psent + 1
  /\ UNCHANGED <<listPixels, listHistory, lresp>>
  /\ UNCHANGED <<ledgerVars, winVars, hookVars, clientVars>>

RECURSIVE Reverse(_)
Reverse(h) == IF h = <<>> THEN <<>> ELSE Append(Reverse(Tail(h)), Head(h))

\* pixels.js:16  history.slice(-10).reverse()
Recent(h) ==
  Reverse(SubSeq(h, Max(1, Len(h) - HistoryShown + 1), Len(h)))

\* pixels.js:14-20  the handler answers with the pixels and the history of
\* its own module.
PList ==
  /\ psent < MaxCalls
  /\ \E m \in {"GET", "POST"} :
       lresp' = IF m = "GET"
                  THEN [status |-> 200, pixels |-> listPixels,
                        history |-> Recent(listHistory), at |-> Len(buyHistory)]
                  ELSE [NoListAnswer EXCEPT !.status = 405, !.at = Len(buyHistory)]
  /\ psent' = psent + 1
  /\ UNCHANGED <<buyPixels, buyHistory, listPixels, listHistory, bresp>>
  /\ UNCHANGED <<ledgerVars, winVars, hookVars, clientVars>>

NextProto ==
  \/ PBuy
  \/ PList

SpecProto == Init /\ [][NextProto]_vars

(***************************************************************************)
(* The purchase rows of a cell and of an account, in commit order.         *)
(***************************************************************************)
PurchasesOfCell(c) == SelectSeq(purchases, LAMBDA p : p.pixelIndex = c)
PurchasesOfUser(a) == SelectSeq(purchases, LAMBDA p : p.userId = a)

RECURSIVE SumPrices(_)
SumPrices(rows) ==
  IF rows = <<>> THEN 0 ELSE Head(rows).priceCents + SumPrices(Tail(rows))

Answered(r) == pc[r] = "done"

(***************************************************************************)
(* C1.  The debit, the cell write and the purchase row of a request are    *)
(* visible all together or not at all: what every account has been        *)
(* debited is the sum of the prices of its purchase rows, every cell's     *)
(* stored count is the number of its purchase rows, and a request whose    *)
(* transaction failed has changed no row.                                  *)
(***************************************************************************)
AllOrNothing ==
  /\ \A a \in Accounts :
       initBalance[a] - balance[a] = SumPrices(PurchasesOfUser(a))
  /\ \A c \in CellIdx : StoredCount(c) = Len(PurchasesOfCell(c))
  /\ \A r \in Slots : status[r] = 500 => ~touched[r]

\* One request has committed its purchase and the transaction of another
\* has failed.
AllOrNothingWitness ==
  /\ \E r \in Slots : status[r] = 200 /\ touched[r]
  /\ \E r \in Slots : status[r] = 500 /\ error[r] = "TransactionFailed"

(***************************************************************************)
(* C2.  When each request is answered before the next is received, the    *)
(* i-th purchase row of a cell has price 1 * 2^(i-1) and count i, the      *)
(* response of the latest purchase reports them, and the stored count is   *)
(* the number of purchases.                                                *)
(***************************************************************************)
SequentialPricing ==
  /\ \A c \in CellIdx :
       /\ \A i \in 1..Len(PurchasesOfCell(c)) :
            /\ PurchasesOfCell(c)[i].priceCents = 1 * Pow2(i - 1)
            /\ PurchasesOfCell(c)[i].countAfter = i
       /\ StoredCount(c) = Len(PurchasesOfCell(c))
  /\ status[1] = 200 =>
       /\ result[1].priceCents = 1 * Pow2(StoredCount(Cell(1)) - 1)
       /\ result[1].buyCountAfter = StoredCount(Cell(1))

\* A cell has been bought three times, at 1, 2 and 4 cents.
SequentialPricingWitness ==
  \E c \in CellIdx : Len(PurchasesOfCell(c)) = 3 /\ status[1] = 200 /\ Cell(1) = c

(***************************************************************************)
(* C3.  Whatever the interleaving, the N-th committed purchase of a cell   *)
(* is charged 1 * 2^(N-1).                                                 *)
(***************************************************************************)
CommitOrderPricing ==
  \A c \in CellIdx :
    \A n \in 1..Len(PurchasesOfCell(c)) :
      PurchasesOfCell(c)[n].priceCents = 1 * Pow2(n - 1)

(***************************************************************************)
(* C4.  No account's balance is ever negative.                             *)
(***************************************************************************)
BalanceNonNegative == \A a \in Accounts : balance[a] >= 0

(***************************************************************************)
(* C5.  The purchases committed for an account never cost more than the    *)
(* balance the account had to spend.                                       *)
(***************************************************************************)
CommitsWithinBalance ==
  \A a \in Accounts : SumPrices(PurchasesOfUser(a)) <= initBalance[a]

(***************************************************************************)
(* C6.  A request whose price exceeds the balance read for its account is  *)
(* answered 402 and has changed no row; no other request is answered 402.  *)
(***************************************************************************)
InsufficientFundsRejected ==
  \A r \in Slots :
    user[r].read =>
      IF user[r].balanceCents < priceCents[r]
        THEN /\ Answered(r)
             /\ status[r] = 402
             /\ staged[r] = {}
             /\ attempts[r] = 0
             /\ ~touched[r]
        ELSE status[r] # 402

\* An account that has money, but less than the price, is refused after
\* purchases have been committed.
InsufficientFundsWitness ==
  \E r \in Slots :
    /\ status[r] = 402
    /\ user[r].balanceCents > 0
    /\ purchases # <<>>

(***************************************************************************)
(* C7.  A request whose pixelIndex does not denote an integer in           *)
(* [0, 1000000), whose color is not # and six hex digits, or whose         *)
(* intensity does not denote an integer in [0, 30], is answered 400        *)
(* without a row having been read or changed.                              *)
(***************************************************************************)
DenotesInteger(x) == x.t \in {"number", "numstr"} /\ x.h % 2 = 0

WellFormed(b) ==
  /\ DenotesInteger(b.pixelIndex)
  /\ b.pixelIndex.h >= 0
  /\ b.pixelIndex.h < 2 * GridCells
  /\ ColorRegexTest(b.color)
  /\ DenotesInteger(b.intensity)
  /\ b.intensity.h >= 0
  /\ b.intensity.h <= 2 * MaxIntensity

InvalidInputRejected ==
  \A r \in Slots :
    (Answered(r) /\ req[r].method = "POST" /\ req[r].session # NoSession
       /\ ~WellFormed(req[r].body)) =>
      /\ status[r] = 400
      /\ ~existing[r].read
      /\ ~user[r].read
      /\ ~touched[r]

(***************************************************************************)
(* C8.  A POST without a session is answered 401 before its body is        *)
(* validated and before any row is read or changed, and only such a        *)
(* request is answered 401.                                                *)
(***************************************************************************)
AuthRequiredFirst ==
  \A r \in Slots :
    /\ (pc[r] \notin {"idle", "session"} /\ req[r].method = "POST"
          /\ req[r].session = NoSession) =>
         /\ Answered(r)
         /\ status[r] = 401
         /\ error[r] = "Auth required"
         /\ idx[r] = NaN
         /\ ~existing[r].read
         /\ ~user[r].read
         /\ attempts[r] = 0
         /\ ~touched[r]
    /\ status[r] = 401 => req[r].session = NoSession

\* A request with no session and a malformed body is answered 401.
AuthRequiredWitness ==
  \E r \in Slots :
    /\ status[r] = 401
    /\ req[r].body = WorstBody
    /\ purchases # <<>>

(***************************************************************************)
(* C9.  A storage conflict reaches the caller only after the purchase has  *)
(* been attempted again.                                                   *)
(***************************************************************************)
ConflictRetried ==
  \A r \in Slots :
    (Answered(r) /\ error[r] = "UniqueConstraint") => attempts[r] > 1

(***************************************************************************)
(* C10.  A GET window query is answered 200 exactly when its start and     *)
(* end are numbers with 0 <= start < end and end - start <= 20000, and     *)
(* 400 without the store having been queried otherwise; so (0, 20000) is   *)
(* accepted, and (0, 20001), (5, 3), a negative start and a start or end   *)
(* that is no number are rejected.  An absent start is 0 and an absent     *)
(* end 10000; the empty string is the number 0 to JavaScript.              *)
(***************************************************************************)
WindowAccepted == wpc = "done" /\ wstatus = 200
WindowRejected == wpc = "done" /\ wstatus = 400 /\ ~wqueried /\ wout = NoRows

InWindowRange(start, end) ==
  /\ ~start.nan
  /\ ~end.nan
  /\ 0 <= start.h
  /\ start.h < end.h
  /\ end.h - start.h <= 2 * 20000

PurchasedInRange(start, end) ==
  {c \in CellIdx :
     Len(PurchasesOfCell(c)) >= 1 /\ start.h <= 2 * c /\ 2 * c < end.h}

OnlyCell42Bought ==
  /\ Len(PurchasesOfCell(42)) = 2
  /\ Len(purchases) = 2
  /\ purchases[2].color = ColorRed
  /\ purchases[2].intensity = JsNum(10)

WindowExact ==
  WindowAccepted =>
    /\ DOMAIN wout = PurchasedInRange(StartOf(wreq), EndOf(wreq))
    /\ \A c \in DOMAIN wout :
         wout[c] = <<pixel[c].color, pixel[c].intensity, pixel[c].buyCount>>
    /\ (OnlyCell42Bought /\ wreq.start = JsNumStr(0) /\ wreq.end = JsNumStr(100))
         => wout = [c \in {42} |-> <<ColorRed, JsNum(10), 2>>]
    /\ wreq.end = JsNumStr(42) => 42 \notin DOMAIN wout

\* window(0, 100) has been answered after the two purchases of cell 42.
WindowExactWitness ==
  /\ WindowAccepted
  /\ OnlyCell42Bought
  /\ wreq.start = JsNumStr(0)
  /\ wreq.end = JsNumStr(100)
  /\ DOMAIN wout = {42}

(***************************************************************************)
(* C12.  The body of a window query answered while purchases commit is     *)
(* the content of the store in its range after some number k of commits,   *)
(* where k is between the number committed when the query arrived and the  *)
(* number committed now: every tuple in it was stored for its cell, and    *)
(* all its tuples were stored at the same time.                            *)
(***************************************************************************)
StoreInRange(rows, start, end) ==
  LET ids == {c \in CellIdx :
                StoreAfter(rows)[c].present /\ start.h <= 2 * c /\ 2 * c < end.h}
  IN [c \in ids |-> <<StoreAfter(rows)[c].color, StoreAfter(rows)[c].intensity,
                       StoreAfter(rows)[c].buyCount>>]

WindowSnapshot ==
  /\ pixel = StoreAfter(purchases)
  /\ WindowAccepted =>
       \E k \in wfrom..Len(purchases) :
         wout = StoreInRange(SubSeq(purchases, 1, k), StartOf(wreq), EndOf(wreq))

\* A query has been answered with the rows of two cells; a purchase
\* committed after the query arrived and before its rows were read, and
\* another after that.
WindowSnapshotWitness ==
  /\ WindowAccepted
  /\ wfrom < wat
  /\ wat < Len(purchases)
  /\ DOMAIN wout = {0, 42}

(***************************************************************************)
(* C13.  A window query answered with the same start and end as the        *)
(* previous one, no purchase having committed between the two reads, has   *)
(* the same body; and no step of a window query changes a Pixel, User or   *)
(* Purchase row.                                                           *)
(***************************************************************************)
WindowRepeatable ==
  (WindowAccepted /\ wlast.req = wreq /\ wlast.at = wat) => wout = wlast.out

WindowReadOnly == [][winVars' # winVars => db' = db]_vars

WindowIdempotent == []WindowRepeatable /\ WindowReadOnly

\* The same window has been answered twice with a row in its body, after a
\* purchase has committed, and none has committed between the two reads.
WindowIdempotentWitness ==
  /\ WindowAccepted
  /\ wlast.req = wreq
  /\ wlast.at = wat
  /\ wat > 0
  /\ wout # NoRows
  /\ \E r \in Slots : status[r] = 200

(***************************************************************************)
(* C14.  However often Stripe delivers the completed checkout session of   *)
(* a payment, the balance of the account is incremented for it once: no    *)
(* session id has two credits, and every balance is what it was plus the   *)
(* amounts of the distinct sessions credited to it.                        *)
(***************************************************************************)
CreditedSessions(a) ==
  {credits[i].id : i \in {j \in 1..Len(credits) : credits[j].userId = a}}

AmountOfSession(id) ==
  (CHOOSE c \in {credits[i] : i \in 1..Len(credits)} : c.id = id).amount

RECURSIVE SumAmounts(_)
SumAmounts(ids) ==
  IF ids = {} THEN 0
  ELSE LET id == CHOOSE x \in ids : TRUE
       IN AmountOfSession(id) + SumAmounts(ids \ {id})

CreditedOncePerPayment ==
  /\ \A i, j \in 1..Len(credits) : credits[i].id = credits[j].id => i = j
  /\ \A a \in Accounts :
       balance[a] =
         initBalance[a] - Spent(purchases, a) + SumAmounts(CreditedSessions(a))

(***************************************************************************)
(* C15.  Purchases in flight together that are for different cells and by  *)
(* different accounts do not affect one another.  Each reads the count and *)
(* the balance it would read alone, is priced as alone, never waits for a  *)
(* lock, is refused only for its own lack of funds and fails only when the *)
(* database does; and its cell, its balance and its response are what they *)
(* would be had it run alone, so in either order.                          *)
(***************************************************************************)
InFlight == {r \in Slots : pc[r] # "idle"}

Committed == {r \in InFlight : status[r] = 200}

Disjoint(r, o) ==
  /\ req[r].session \in Accounts
  /\ req[o].session \in Accounts
  /\ req[r].session # req[o].session
  /\ req[r].body \in ValidBodies
  /\ req[o].body \in ValidBodies
  /\ ToNumber(req[r].body.pixelIndex) # ToNumber(req[o].body.pixelIndex)

\* Every request received so far is in flight, and they are disjoint.
AllDisjoint ==
  /\ Cardinality(InFlight) >= 2
  /\ received = Cardinality(InFlight)
  /\ \A r, o \in InFlight : r # o => Disjoint(r, o)

\* The ledger before any of the requests in flight had committed.
LedgerBefore == SubSeq(purchases, 1, Len(purchases) - Cardinality(Committed))

CountAlone(r) ==
  Len(SelectSeq(LedgerBefore,
                LAMBDA p : 2 * p.pixelIndex = ToNumber(req[r].body.pixelIndex).h))

BalanceAlone(r) == initBalance[req[r].session] - Spent(LedgerBefore, req[r].session)

PriceAlone(r) == 1 * Pow2(CountAlone(r))

AsAlone(r) ==
  /\ existing[r].read =>
       BuyCountOf(existing[r]) = CountAlone(r) /\ priceCents[r] = PriceAlone(r)
  /\ user[r].read => user[r].balanceCents = BalanceAlone(r)
  /\ pc[r] = "txDebit" => ~UserLocked(r)
  /\ pc[r] = "txPixel" => ~PixelLocked(r)
  /\ status[r] \in {0, 200, 402, 500}
  /\ status[r] = 402 <=> (user[r].read /\ BalanceAlone(r) < PriceAlone(r))
  /\ status[r] = 500 => error[r] = "TransactionFailed"
  /\ IF status[r] = 200
       THEN /\ result[r] = [priceCents |-> PriceAlone(r),
                             buyCountAfter |-> CountAlone(r) + 1]
            /\ balance[req[r].session] = BalanceAlone(r) - PriceAlone(r)
            /\ pixel[Cell(r)] = [present |-> TRUE, color |-> req[r].body.color,
                                  intensity |-> req[r].body.intensity,
                                  buyCount |-> CountAlone(r) + 1]
       ELSE /\ balance[req[r].session] = BalanceAlone(r)
            /\ StoredCount(ToNumber(req[r].body.pixelIndex).h \div 2) = CountAlone(r)

DisjointIndependent == AllDisjoint => \A r \in InFlight : AsAlone(r)

\* Two disjoint purchases have their transactions open together, every
\* write staged, on a ledger that holds an earlier purchase.
DisjointIndependentWitness ==
  /\ AllDisjoint
  /\ \A r \in InFlight : pc[r] = "txCommit"
  /\ purchases # <<>>

(***************************************************************************)
(* C16.  The price engine bounds the count it prices: a purchase of a cell *)
(* whose count has reached 30 is refused, so that no count goes above 30,  *)
(* or priced with the exponent clamped to 30.  Either way the exponent of  *)
(* the price of the next purchase of any cell is at most 30, and no price  *)
(* charged is above 1 * 2^30.                                              *)
(***************************************************************************)
PriceBounded ==
  /\ \A c \in CellIdx : PriceExponent(StoredCount(c)) <= 30
  /\ \A i \in 1..Len(purchases) : purchases[i].priceCents <= 1 * Pow2(30)

(***************************************************************************)
(* C17.  A cell has a row exactly when a purchase of it has committed, a   *)
(* row has a count of at least 1, and the count is the number of committed *)
(* purchases of the cell; no step removes a row or lowers a count, and a   *)
(* step changes a count by 1 exactly when it commits a purchase of that    *)
(* cell.                                                                   *)
(***************************************************************************)
CellRowState ==
  \A c \in CellIdx :
    /\ pixel[c].present <=> Len(PurchasesOfCell(c)) >= 1
    /\ pixel[c].present => pixel[c].buyCount >= 1
    /\ StoredCount(c) = Len(PurchasesOfCell(c))

CellRowStep ==
  \A c \in CellIdx :
    /\ pixel[c].present => pixel'[c].present
    /\ StoredCount(c)' >= StoredCount(c)
    /\ StoredCount(c)' - StoredCount(c) \in {0, 1}
    /\ StoredCount(c)' - StoredCount(c)
         = Len(PurchasesOfCell(c))' - Len(PurchasesOfCell(c))

CellRowCounts == []CellRowState /\ [][CellRowStep]_vars

\* Two overlapping purchases of a cell that had been bought once have both
\* committed from the same read of its count, and the count is 3.
CellRowCountsWitness ==
  \E c \in CellIdx :
    /\ StoredCount(c) = 3
    /\ PurchasesOfCell(c)[2].countAfter = PurchasesOfCell(c)[3].countAfter

(***************************************************************************)
(* C20.  The response of a committed purchase reports what its commit      *)
(* applied: priceCents is the amount by which the commit lowered the       *)
(* balance of the buyer, and buyCountAfter is the count stored for the     *)
(* cell by the commit.                                                     *)
(***************************************************************************)
CommitReported(r) ==
  (pc[r] = "txCommit" /\ status'[r] = 200) =>
    /\ result'[r].priceCents = balance[req[r].session] - balance'[req[r].session]
    /\ result'[r].buyCountAfter = pixel'[Cell(r)].buyCount

ResponseReportsApplied == [][\A r \in Slots : CommitReported(r)]_vars

(***************************************************************************)
(* C18.  When buyPixel has applied the response of a successful purchase,  *)
(* the count the client keeps for the cell, the exponent of the price it   *)
(* shows next, is the buyCountAfter of the response.                       *)
(***************************************************************************)
BuyApplied == cpc = "buy" /\ cpc' = "me"

LocalFromResponse ==
  [][BuyApplied =>
       /\ purchasedRef'[Cell(1)].present
       /\ purchasedRef'[Cell(1)].exp = result[1].buyCountAfter]_vars

(***************************************************************************)
(* C19.  A call of buyPixel that ends without a 2xx response, because the  *)
(* server refused the purchase or because the request failed, changes      *)
(* neither the map entry of the cell, nor the number of purchased cells,   *)
(* nor the displayed balance: no step of it does.                          *)
(***************************************************************************)
BuyRefused == cpc = "buy" /\ cpc' = "idle"

BuySent == cpc = "idle" /\ cpc' = "buy"

RejectionLeavesLocal ==
  [][(BuySent \/ BuyRefused) =>
       UNCHANGED <<purchasedRef, purchasedCount, clientBalanceCents>>]_vars

\* The purchase of a cell the client has loaded was refused for lack of
\* funds, and the entry of the cell is as it was loaded.
RejectionLeavesLocalWitness ==
  /\ cpc = "idle"
  /\ pc[1] = "done"
  /\ status[1] = 402
  /\ purchasedRef[Cell(1)].present
  /\ purchasedRef[Cell(1)].exp = StoredCount(Cell(1)) - 1

(***************************************************************************)
(* C21.  A commit appends one Purchase row whose price is the amount the   *)
(* commit debits and whose countAfter, color and intensity are the ones    *)
(* the commit stores for the cell, and no step changes or removes a row    *)
(* written earlier; so the countAfter values of the rows of a cell are     *)
(* 1, 2, ..., the count of the cell, in the order of the commits.          *)
(***************************************************************************)
AuditCountsState ==
  \A c \in CellIdx :
    /\ Len(PurchasesOfCell(c)) = StoredCount(c)
    /\ \A i \in 1..Len(PurchasesOfCell(c)) : PurchasesOfCell(c)[i].countAfter = i

Commits(r) == pc[r] = "txCommit" /\ status'[r] = 200

AuditStep ==
  /\ \A r \in Slots :
       Commits(r) =>
         /\ Len(purchases') = Len(purchases) + 1
         /\ LET row == purchases'[Len(purchases')]
            IN /\ row.priceCents = balance[req[r].session] - balance'[req[r].session]
               /\ row.countAfter = pixel'[Cell(r)].buyCount
               /\ row.color = pixel'[Cell(r)].color
               /\ row.intensity = pixel'[Cell(r)].intensity
  /\ Len(purchases') >= Len(purchases)
  /\ SubSeq(purchases', 1, Len(purchases)) = purchases
  /\ purchases' # purchases => \E r \in Slots : Commits(r)

AuditMatchesCommit == []AuditCountsState /\ [][AuditStep]_vars

(***************************************************************************)
(* C22.  The commit of a purchase of cell i by account a changes the row   *)
(* of cell i and the balance of a and appends one Purchase row: the row of *)
(* every other cell and the balance of every other account are as they     *)
(* were, and the color and the intensity stored for cell i are those of    *)
(* the request.                                                            *)
(***************************************************************************)
CommitFrame(r) ==
  Commits(r) =>
    /\ \A c \in CellIdx \ {Cell(r)} : pixel'[c] = pixel[c]
    /\ \A a \in Accounts \ {req[r].session} : balance'[a] = balance[a]
    /\ balance'[req[r].session] = balance[req[r].session] - priceCents[r]
    /\ pixel'[Cell(r)].present
    /\ pixel'[Cell(r)].color = req[r].body.color
    /\ pixel'[Cell(r)].intensity = req[r].body.intensity
    /\ StoredCount(Cell(r))' = StoredCount(Cell(r)) + 1
    /\ Len(purchases') = Len(purchases) + 1
    /\ SubSeq(purchases', 1, Len(purchases)) = purchases

CommitTouchesOwnRows == [][\A r \in Slots : CommitFrame(r)]_vars

\* u1 has bought a cell at a price above 0 while u2 has money left and
\* another cell holds the row u2's purchase gave it.
CommitTouchesOwnRowsWitness ==
  \E r \in Slots :
    /\ status[r] = 200
    /\ req[r].session = "u1"
    /\ result[r].priceCents > 0
    /\ balance["u2"] > 0
    /\ \E c \in CellIdx \ {Cell(r)} : pixel[c].present /\ pixel[c].color = ColorMixed

(***************************************************************************)
(* C23.  The checks of a purchase are made in the order authentication,    *)
(* index, color, intensity, price, balance, apply.  A request without a    *)
(* session is answered 401 whatever its body; a malformed request is       *)
(* answered 400 before a row is read, so never 402, also when its account  *)
(* could not afford the cell; the balance is read after the price has been *)
(* resolved; and nothing is staged or written before the balance read has *)
(* covered the price.                                                      *)
(***************************************************************************)
PastValidation(r) == pc[r] \notin {"idle", "session"} /\ req[r].method = "POST"

FirstRejection(b) ==
  IF IndexInvalid(ToNumber(b.pixelIndex)) THEN "Invalid pixel index"
  ELSE IF ~ColorRegexTest(b.color) THEN "Invalid color"
  ELSE IF IntensityInvalid(ToNumber(b.intensity)) THEN "Invalid intensity"
  ELSE "none"

ChecksInOrder ==
  \A r \in Slots :
    /\ (PastValidation(r) /\ req[r].session = NoSession) => status[r] = 401
    /\ (PastValidation(r) /\ req[r].session # NoSession /\ ~WellFormed(req[r].body)) =>
         /\ Answered(r)
         /\ status[r] = 400
         /\ error[r] = FirstRejection(req[r].body)
         /\ ~existing[r].read
         /\ ~user[r].read
    /\ existing[r].read => (req[r].session # NoSession /\ ~idx[r].nan)
    /\ user[r].read => existing[r].read
    /\ (staged[r] # {} \/ touched[r] \/ attempts[r] > 0 \/ status[r] = 200) =>
         /\ user[r].read
         /\ user[r].balanceCents >= priceCents[r]

(***************************************************************************)
(* C24.  Every purchase request that is received is answered, whatever     *)
(* requests overlap with it: no request waits for ever for the lock of a   *)
(* row.  Its answer is one of 200, 400, 401, 402 and 500; it is 200        *)
(* exactly when the request has changed rows; and a storage conflict is    *)
(* answered 500 only when the purchase has been attempted again.           *)
(***************************************************************************)
OneOutcome ==
  \A r \in Slots :
    (Answered(r) /\ req[r].method = "POST") =>
      /\ status[r] \in {200, 400, 401, 402, 500}
      /\ status[r] = 200 <=> touched[r]
      /\ (status[r] = 500 /\ error[r] = "UniqueConstraint") => attempts[r] > 1

EventuallyAnswered == \A r \in Slots : (pc[r] # "idle") ~> Answered(r)

NoLockCycle ==
  \A r \in Slots :
    /\ (pc[r] = "txDebit" /\ UserLocked(r)) =>
         \E o \in Slots \ {r} : pc[o] \in {"txPixel", "txPurchase", "txCommit"}
    /\ (pc[r] = "txPixel" /\ PixelLocked(r)) =>
         \E o \in Slots \ {r} : pc[o] \in {"txPurchase", "txCommit"}

TerminatesInOneOutcome == []OneOutcome /\ []NoLockCycle /\ EventuallyAnswered

(***************************************************************************)
(* C25.  The balance of every account is the balance it started with,      *)
(* plus the amounts of the checkout sessions credited to it, one for every *)
(* credit applied, minus the prices of its Purchase rows; and a step       *)
(* changes a balance only by applying a credit, which raises the balance   *)
(* of the session's user by its amount, or by committing a purchase, which *)
(* lowers the balance of the buyer by its price.                           *)
(***************************************************************************)
\* The amount paid in the checkout session id.
PaidAmount(id) ==
  LET e == CHOOSE d \in Deliveries :
             /\ d.id = id
             /\ d.method = "POST"
             /\ d.signed
             /\ d.type = "checkout.session.completed"
  IN AmountCents(e).h \div 2

RECURSIVE SumPaid(_, _)
SumPaid(cs, a) ==
  IF cs = <<>> THEN 0
  ELSE (IF Head(cs).userId = a THEN PaidAmount(Head(cs).id) ELSE 0)
         + SumPaid(Tail(cs), a)

MoneyConservedState ==
  \A a \in Accounts :
    balance[a] = initBalance[a] + SumPaid(credits, a) - SumPrices(PurchasesOfUser(a))

CreditApplied == hpc = "credit" /\ Len(credits') = Len(credits) + 1

MoneyConservedStep ==
  \A a \in Accounts :
    balance'[a] # balance[a] =>
      \/ /\ CreditApplied
         /\ hevent.userId = a
         /\ balance'[a] = balance[a] + PaidAmount(hevent.id)
         /\ purchases' = purchases
      \/ \E r \in Slots :
           /\ Commits(r)
           /\ req[r].session = a
           /\ balance'[a] = balance[a] - purchases'[Len(purchases')].priceCents
           /\ credits' = credits

MoneyConserved == []MoneyConservedState /\ [][MoneyConservedStep]_vars

\* u1 has been credited and has bought cell 0 twice, before and after the
\* credit, and u2 has been credited as well.
MoneyConservedWitness ==
  /\ Len(PurchasesOfUser("u1")) = 2
  /\ SumPaid(credits, "u1") > 0
  /\ SumPaid(credits, "u2") > 0
  /\ balance["u1"] > initBalance["u1"]

(***************************************************************************)
(* C26.  When a credit and a purchase of the same account overlap, both    *)
(* take effect: once the credit has been applied and the purchase has      *)
(* committed, the balance is the balance before both, plus the amount      *)
(* credited, minus the price charged, whichever came first and whatever    *)
(* balance the purchase had read.                                          *)
(***************************************************************************)
\* One purchase and one delivery have been received, for the same account,
\* and both handlers have answered.
CreditAndDebitDone ==
  /\ received = 1
  /\ hreceived = 1
  /\ pc[1] = "done"
  /\ status[1] = 200
  /\ hpc = "done"
  /\ Len(credits) = 1
  /\ credits[1].userId = req[1].session

BalanceBeforeBoth(a) == initBalance[a] - Spent(GameSeed, a)

NoLostUpdate ==
  CreditAndDebitDone =>
    balance[req[1].session] =
      BalanceBeforeBoth(req[1].session) + PaidAmount(hevent.id) - result[1].priceCents

\* The purchase read the balance before the credit was applied and
\* committed after it.
NoLostUpdateWitness ==
  /\ CreditAndDebitDone
  /\ user[1].balanceCents = BalanceBeforeBoth(req[1].session)
  /\ credits[1].at = Len(GameSeed)
  /\ Len(purchases) = Len(GameSeed) + 1
  /\ balance[req[1].session] > user[1].balanceCents

(***************************************************************************)
(* C27.  The price the page shows for a cell is the price the server       *)
(* charges for it.  When loadWindow has merged an answer that no commit    *)
(* has followed, getPriceCents of every cell in it is                      *)
(* priceCentsForBuyCount of the count stored for the cell; and the entry   *)
(* buyPixel sets after a successful purchase is the entry loadWindow makes *)
(* of the row the server now stores.                                       *)
(***************************************************************************)
LoadApplied == wpc = "done" /\ wstatus = 200 /\ wpc' = "idle"

\* The entry loadWindow makes of the row stored for cell i.
LoadedEntry(i) ==
  Merged(purchasedRef, FindMany(Num(2 * i), Num(2 * i + 2)))[i]

ShownPriceIsCharged ==
  (LoadApplied /\ wat = Len(purchases)) =>
    \A i \in DOMAIN wout : getPriceCents(i)' = priceCentsForBuyCount(StoredCount(i))

BoughtEntryIsLoadedEntry ==
  BuyApplied => purchasedRef'[Cell(1)] = LoadedEntry(Cell(1))

ClientPriceAgrees == [][ShownPriceIsCharged /\ BoughtEntryIsLoadedEntry]_vars

(***************************************************************************)
(* C28.  A sale made by POST /api/buy is seen by GET /api/pixels: an       *)
(* answer of GET /api/pixels that no sale has followed reports the pixel   *)
(* of the latest sale with its buyer as owner and with twice the price     *)
(* paid, and has the sale in its history.                                  *)
(***************************************************************************)
SaleVisible ==
  (lresp.status = 200 /\ lresp.at = Len(buyHistory) /\ buyHistory # <<>>) =>
    LET e == buyHistory[Len(buyHistory)]
    IN /\ lresp.pixels[e.id].owner = e.buyer
       /\ lresp.pixels[e.id].price = 2 * e.price
       /\ \E k \in 1..Len(lresp.history) : lresp.history[k] = e

(***************************************************************************)
(* C29.  In the prototype the price of every pixel is 2^k, k the number of *)
(* its sales in the history of /api/buy; the j-th sale of a pixel records  *)
(* the price 2^(j-1), the owner before it as oldOwner and the owner after  *)
(* it as buyer.  A request is answered 400 when its id or its pseudo is    *)
(* missing, 404 when its id is that of no pixel and 405 when it is not a   *)
(* POST, and only a request answered 200 changes pixels or history: it     *)
(* appends one sale and changes the one pixel sold.                        *)
(***************************************************************************)
SalesOf(i) == SelectSeq(buyHistory, LAMBDA e : e.id = i)

PriceDoublesState ==
  /\ \A i \in KeptIds :
       /\ buyPixels[i].price = Pow2(Len(SalesOf(i)))
       /\ buyPixels[i].owner =
            IF SalesOf(i) = <<>> THEN NoOwner ELSE SalesOf(i)[Len(SalesOf(i))].buyer
       /\ \A j \in 1..Len(SalesOf(i)) :
            /\ SalesOf(i)[j].price = Pow2(j - 1)
            /\ SalesOf(i)[j].oldOwner =
                 IF j = 1 THEN NoOwner ELSE SalesOf(i)[j - 1].buyer
  /\ bresp.req.method \notin {"POST", "none"} => bresp.status = 405
  /\ (bresp.req.method = "POST"
        /\ (bresp.req.id = JsUndefined \/ bresp.req.pseudo = "")) => bresp.status = 400
  /\ (bresp.req.method = "POST" /\ Truthy(bresp.req.id) /\ bresp.req.pseudo # ""
        /\ \A i \in PixelIds : bresp.req.id # JsNum(i)) => bresp.status = 404
  /\ bresp.status = 200 => \E i \in PixelIds : bresp.req.id = JsNum(i)

PriceDoublesStep ==
  (psent' # psent /\ (bresp'.status # 200 \/ bresp' = bresp)) =>
    UNCHANGED <<buyPixels, buyHistory>>

SaleStep ==
  (buyPixels' # buyPixels \/ buyHistory' # buyHistory) =>
    /\ bresp'.status = 200
    /\ Len(buyHistory') = Len(buyHistory) + 1
    /\ SubSeq(buyHistory', 1, Len(buyHistory)) = buyHistory
    /\ LET e == buyHistory'[Len(buyHistory')]
       IN /\ bresp'.req.id = JsNum(e.id)
          /\ e.buyer = bresp'.req.pseudo
          /\ e.buyer = buyPixels'[e.id].owner
          /\ e.oldOwner = buyPixels[e.id].owner
          /\ e.price = buyPixels[e.id].price
          /\ e.price = bresp'.price
          /\ buyPixels'[e.id].price = 2 * e.price
          /\ \A i \in KeptIds \ {e.id} : buyPixels'[i] = buyPixels[i]

CreditAcknowledged == hpc = "credit" /\ hpc' = "done" /\ hstatus' = 200

AcknowledgedStep ==
  /\ CreditAcknowledged =>
       /\ hevent.userId \in Accounts
       /\ balance'[hevent.userId] =
            balance[hevent.userId] + AmountCents(hevent).h \div 2
  /\ balance' # balance =>
       /\ hevent.method = "POST"
       /\ hevent.signed
       /\ hevent.type = "checkout.session.completed"
       /\ ToCredit(hevent)
       /\ hstatus' # 400

AcknowledgedOnlyIfCredited == [][AcknowledgedStep]_vars

====
